---- MODULE Spec2Model ----
(***************************************************************************)
(* A model of cookiecutter's hierarchical context resolution               *)
(* (cookiecutter/prompt.py), its variable tree (cookiecutter/variables.py) *)
(* and the replay store (cookiecutter/replay.py).                          *)
(*                                                                         *)
(* Python values are tagged records.  A Python str is a sequence of text   *)
(* fragments; the fragments "{{" and "}}" delimit a template reference to  *)
(* a key of the context, the only template syntax the model renders.       *)
(* Variable names and context keys are strs written one character per      *)
(* fragment, so that startswith('_') and the '/' separator are computed.   *)
(***************************************************************************)
EXTENDS Integers, Sequences, FiniteSets, TLC

VARIABLES
    context,            \* context['cookiecutter']: the root CookiecutterVariable
    no_input,           \* the no_input flag of the running prompt_for_config
    cookiecutter_dict,  \* the OrderedDict being built: a sequence of <<key, value>>
    count,              \* prompt_for_config's positional counter
    size,               \* prompt_for_config's announced total
    pc,                 \* "idle", "pass1", "pass2", "returned", "raised"
    idx,                \* index of the current top-level variable in the running pass
    stack,              \* the active get_cookiecutter_values calls, innermost last
    exc,                \* the exception that ended the call, NoExc otherwise
    asked,              \* history: the prompts shown and answered, [key, kind, prefix, answer]
    typed,              \* history: some prompt was answered with more than a bare Enter
    rendered,           \* history: the keys whose stored value came from render_variable
    writes,             \* history: the keys assigned in cookiecutter_dict, in order
    run,                \* 1 during the first call of prompt_for_config, 2 during the second
    first,              \* the outcome of the first call
    replay_dirs,        \* the directories that exist in the replay file system
    replay_files,       \* the files that exist there: file name -> content
    replay_dumped,      \* history: file name -> the context whose dump wrote the file last
    replay_call,        \* the last call of dump or load and how it ended
    replay_ops,         \* the number of calls of dump and load so far
    nested_call,        \* the last call of choose_nested_template and how it ended
    fs,                 \* the file system prompt_and_delete works on: path -> "dir" or "file"
    delete_call,        \* the call of prompt_and_delete: its arguments, position and result
    self,               \* the CookiecutterVariable that update and to_cookiecutter_dict are called on
    tree_call           \* the last call on self and what it returned

vars == <<context, no_input, cookiecutter_dict, count, size, pc, idx, stack, exc,
          asked, typed, rendered, writes, run, first,
          replay_dirs, replay_files, replay_dumped, replay_call, replay_ops, nested_call,
          fs, delete_call, self, tree_call>>

resolver_vars == <<context, no_input, cookiecutter_dict, count, size, pc, idx, stack, exc,
                   asked, typed, rendered, writes, run, first>>
replay_vars == <<replay_dirs, replay_files, replay_dumped, replay_call, replay_ops>>
delete_vars == <<fs, delete_call>>
tree_vars == <<self, tree_call>>
tool_vars == <<replay_dirs, replay_files, replay_dumped, replay_call, replay_ops, nested_call,
               fs, delete_call, self, tree_call>>

(***************************************************************************)
(* Python values                                                           *)
(***************************************************************************)
None == [t |-> "none"]
Bool(b) == [t |-> "bool", b |-> b]
PyInt(n) == [t |-> "int", n |-> n]
Str(s) == [t |-> "str", s |-> s]
List(xs) == [t |-> "list", items |-> xs]
Dict(ps) == [t |-> "dict", items |-> ps]
OrderedDict(ps) == [t |-> "odict", items |-> ps]

\* The str "{{ cookiecutter.<key> }}".
Tmpl(key) == Str(<<"{{">> \o key \o <<"}}">>)

\* The str "{{ cookiecutter.<key> | default('<fallback>') }}".
TmplDefault(key, fallback) == Str(<<"{{">> \o key \o <<"|", fallback, "}}">>)

\* What a raised jinja2 UndefinedError looks like to the callers of render.
UndefinedError == [t |-> "UndefinedError"]

\* Python's ==, which compares bool and int by number (True == 1).
PyEq(a, b) ==
    IF a.t \in {"bool", "int"} /\ b.t \in {"bool", "int"}
    THEN (IF a.t = "bool" THEN (IF a.b THEN 1 ELSE 0) ELSE a.n)
         = (IF b.t = "bool" THEN (IF b.b THEN 1 ELSE 0) ELSE b.n)
    ELSE a = b

startswith(s, p) == Len(s) >= Len(p) /\ SubSeq(s, 1, Len(p)) = p

Digits == <<"0", "1", "2", "3", "4", "5", "6", "7", "8", "9">>

\* str(n) for a natural number.
RECURSIVE IntStr(_)
IntStr(n) == IF n < 10 THEN <<Digits[n + 1]>> ELSE IntStr(n \div 10) \o <<Digits[(n % 10) + 1]>>

(***************************************************************************)
(* The OrderedDict cookiecutter_dict                                       *)
(***************************************************************************)
Keys(d) == {d[j][1] : j \in DOMAIN d}
Get(d, k) == d[CHOOSE j \in DOMAIN d : d[j][1] = k][2]
Put(d, k, v) ==
    IF k \in Keys(d)
    THEN [j \in DOMAIN d |-> IF d[j][1] = k THEN <<k, v>> ELSE d[j]]
    ELSE Append(d, <<k, v>>)

\* d[key] of a Python dict value; KeyError when absent.
HasItem(dv, key) == \E j \in DOMAIN dv.items : dv.items[j][1] = key
Item(dv, key) == dv.items[CHOOSE j \in DOMAIN dv.items : dv.items[j][1] = key][2]

(***************************************************************************)
(* render_variable                                                         *)
(***************************************************************************)
RECURSIVE Join(_, _)
Join(parts, sep) ==
    IF parts = <<>> THEN <<>>
    ELSE IF Len(parts) = 1 THEN parts[1]
    ELSE parts[1] \o sep \o Join(Tail(parts), sep)

\* What jinja2 writes for a value in "{{ ... }}": str(value), with repr inside
\* containers.
RECURSIVE PyStr(_)
RECURSIVE Repr(_)
PyStr(v) ==
    CASE v.t = "str" -> v.s
      [] v.t = "none" -> <<"None">>
      [] v.t = "bool" -> IF v.b THEN <<"True">> ELSE <<"False">>
      [] v.t = "int" -> IntStr(v.n)
      [] v.t = "list" -> <<"[">> \o Join([j \in DOMAIN v.items |-> Repr(v.items[j])], <<", ">>) \o <<"]">>
      [] v.t = "dict" ->
            <<"{">> \o Join([j \in DOMAIN v.items |->
                                Repr(v.items[j][1]) \o <<": ">> \o Repr(v.items[j][2])], <<", ">>)
            \o <<"}">>
      [] v.t = "odict" ->        \* the form of Python before 3.12
            <<"OrderedDict([">> \o Join([j \in DOMAIN v.items |->
                <<"(">> \o Repr(v.items[j][1]) \o <<", ">> \o Repr(v.items[j][2]) \o <<")">>], <<", ">>)
            \o <<"])">>
Repr(v) == IF v.t = "str" THEN <<"'">> \o v.s \o <<"'">> ELSE PyStr(v)

\* Position of the first "}}" of s at or after j, 0 when there is none.
RECURSIVE FindClose(_, _)
FindClose(s, j) ==
    IF j > Len(s) THEN 0 ELSE IF s[j] = "}}" THEN j ELSE FindClose(s, j + 1)

\* Position of the first "|" of s, 0 when there is none.
RECURSIVE FindBar(_, _)
FindBar(s, j) ==
    IF j > Len(s) THEN 0 ELSE IF s[j] = "|" THEN j ELSE FindBar(s, j + 1)

\* env.from_string(s).render(cookiecutter=d) under StrictEnvironment: text is
\* copied, "{{" key "}}" is replaced by str(d[key]), and a key that d lacks
\* raises UndefinedError unless the expression names a fallback,
\* "{{" key "|" fallback "}}" (jinja2's default filter).  The trees of the
\* model close every "{{".
RECURSIVE Template(_, _)
Template(s, d) ==
    IF s = <<>> THEN Str(<<>>)
    ELSE IF s[1] = "{{" /\ FindClose(s, 2) # 0
    THEN LET c == FindClose(s, 2)
             expr == SubSeq(s, 2, c - 1)
             bar == FindBar(expr, 1)
             key == IF bar = 0 THEN expr ELSE SubSeq(expr, 1, bar - 1)
             rest == Template(SubSeq(s, c + 1, Len(s)), d)
         IN  IF rest.t = "UndefinedError" THEN UndefinedError
             ELSE IF key \in Keys(d) THEN Str(PyStr(Get(d, key)) \o rest.s)
             ELSE IF bar = 0 THEN UndefinedError
             ELSE Str(SubSeq(expr, bar + 1, Len(expr)) \o rest.s)
    ELSE LET rest == Template(Tail(s), d)
         IN  IF rest.t = "UndefinedError" THEN UndefinedError ELSE Str(<<s[1]>> \o rest.s)

\* render_variable(env, raw, cookiecutter_dict); UndefinedError stands for the
\* exception leaving the call.
RECURSIVE render_variable(_, _)
RECURSIVE RenderPairs(_, _)
RECURSIVE RenderList(_, _)
RenderPairs(ps, d) ==
    IF ps = <<>> THEN Dict(<<>>)
    ELSE LET k == render_variable(ps[Len(ps)][1], d)
             v == render_variable(ps[Len(ps)][2], d)
             front == RenderPairs(SubSeq(ps, 1, Len(ps) - 1), d)
         IN  IF "UndefinedError" \in {k.t, v.t, front.t}
             THEN UndefinedError
             ELSE Dict(Put(front.items, k, v))
RenderList(xs, d) ==
    IF xs = <<>> THEN List(<<>>)
    ELSE LET x == render_variable(xs[1], d)
             rest == RenderList(Tail(xs), d)
         IN  IF "UndefinedError" \in {x.t, rest.t}
             THEN UndefinedError
             ELSE List(<<x>> \o rest.items)
render_variable(raw, d) ==
    CASE raw.t \in {"none", "bool"} -> raw
      [] raw.t = "dict" -> RenderPairs(raw.items, d)
      [] raw.t = "list" -> RenderList(raw.items, d)
      [] raw.t = "int" -> Template(PyStr(raw), d)
      [] raw.t = "str" -> Template(raw.s, d)

(***************************************************************************)
(* CookiecutterVariable                                                    *)
(***************************************************************************)
\* CookiecutterVariable.__init__: prompt falls back to the name.
CookiecutterVariable(name, value, prompt, variables, matches, metadata) ==
    [t |-> "var", name |-> name, value |-> value,
     prompt |-> IF prompt # <<>> THEN prompt ELSE name,
     variables |-> variables, matches |-> matches, metadata |-> metadata]

\* A variable declared with name, value, branches and matches only.
Var(name, value, variables, matches) ==
    CookiecutterVariable(name, value, <<>>, variables, matches, None)

\* The variable reached from node by following child indices.
RECURSIVE NodeAt(_, _)
NodeAt(node, path) ==
    IF path = <<>> THEN node ELSE NodeAt(node.variables[path[1]], Tail(path))

(***************************************************************************)
(* The operator's side of the prompts.  An answer is what the operator     *)
(* types before Enter, one character per fragment; <<>> is a bare Enter.   *)
(***************************************************************************)
Upper == <<"A", "E", "F", "L", "N", "O", "R", "S", "T", "U", "Y">>
Lower == <<"a", "e", "f", "l", "n", "o", "r", "s", "t", "u", "y">>

\* str.lower() on the alphabet of the answers.
lower(s) ==
    [j \in DOMAIN s |->
        IF \E u \in DOMAIN Upper : Upper[u] = s[j]
        THEN Lower[CHOOSE u \in DOMAIN Upper : Upper[u] = s[j]]
        ELSE s[j]]

\* str.strip(): leading and trailing blanks removed.
RECURSIVE lstrip(_)
lstrip(s) == IF s # <<>> /\ s[1] = " " THEN lstrip(Tail(s)) ELSE s
RECURSIVE rstrip(_)
rstrip(s) == IF s # <<>> /\ s[Len(s)] = " " THEN rstrip(SubSeq(s, 1, Len(s) - 1)) ELSE s
strip(s) == rstrip(lstrip(s))

yes_choices == {<<"1">>, <<"t", "r", "u", "e">>, <<"t">>, <<"y", "e", "s">>, <<"y">>, <<"o", "n">>}
no_choices == {<<"0">>, <<"f", "a", "l", "s", "e">>, <<"f">>, <<"n", "o">>, <<"n">>, <<"o", "f", "f">>}

InvalidResponse == [t |-> "InvalidResponse"]

\* process_response comparing the answer as typed.
process_response_AsTyped(value) ==
    IF value \in yes_choices THEN Bool(TRUE)
    ELSE IF value \in no_choices THEN Bool(FALSE)
    ELSE InvalidResponse

\* YesNoPrompt.process_response.
process_response(value) ==
    LET w == lower(strip(value))
    IN  IF w \in yes_choices THEN Bool(TRUE)
        ELSE IF w \in no_choices THEN Bool(FALSE)
        ELSE InvalidResponse

\* One round of rich's PromptBase loop in each reader: a bare Enter returns
\* the default, any other answer goes through process_response;
\* InvalidResponse asks again.

\* One round of read_user_yes_no.
read_user_yes_no(default_value, answer) ==
    IF answer = <<>> THEN default_value ELSE process_response(answer)

\* read_user_variable that hands back what was typed, the default unused.
read_user_variable_AsTyped(default_value, answer) == Str(answer)

\* One round of read_user_variable's loop; a None result asks again.
read_user_variable(default_value, answer) ==
    IF answer = <<>> THEN default_value ELSE Str(answer)

\* read_user_choice with the last choice as the default of the prompt.
read_user_choice_DefaultLast(options, answer) ==
    LET pick == IF answer = <<>> THEN IntStr(Len(options)) ELSE answer
    IN  IF \E n \in DOMAIN options : IntStr(n) = pick
        THEN options[CHOOSE n \in DOMAIN options : IntStr(n) = pick]
        ELSE InvalidResponse

\* One round of read_user_choice for a non-empty option list: the choices are
\* "1".."N", a bare Enter takes "1", anything else is asked again.
read_user_choice(options, answer) ==
    LET pick == IF answer = <<>> THEN IntStr(1) ELSE answer
    IN  IF \E n \in DOMAIN options : IntStr(n) = pick
        THEN options[CHOOSE n \in DOMAIN options : IntStr(n) = pick]
        ELSE InvalidResponse

\* prompt_choice_for_config that takes the last option when there is no input.
prompt_choice_for_config_Last(rendered_options, noinput, answer) ==
    IF noinput THEN rendered_options[Len(rendered_options)]
    ELSE read_user_choice(rendered_options, answer)

\* prompt.py 327-329: prompt_choice_for_config once the options are rendered.
prompt_choice_for_config(rendered_options, noinput, answer) ==
    IF noinput THEN rendered_options[1] ELSE read_user_choice(rendered_options, answer)

\* A JSON answer is given by what json.loads makes of it: a decoded value, or
\* Undecodable when json.loads raises; NoAnswer is a bare Enter.
NoAnswer == [t |-> "empty"]
Undecodable == [t |-> "undecodable"]

\* process_json: a decoded object (an OrderedDict, by object_pairs_hook) is
\* returned, anything else is invalid.
process_json(user_value) == IF user_value.t = "odict" THEN user_value ELSE InvalidResponse

\* One round of read_user_dict for a dict default.
read_user_dict(default_value, answer) ==
    IF answer = NoAnswer THEN default_value ELSE process_json(answer)

(***************************************************************************)
(* prompt_for_config and get_cookiecutter_values, one step per assignment  *)
(* to cookiecutter_dict, per branch test and per loop iteration.           *)
(***************************************************************************)
NoExc == [type |-> "none"]
NoPrefix == <<>>

TopVars == context.variables
Cur == TopVars[idx]
IsPrivate(v) == startswith(v.name, <<"_">>) /\ ~startswith(v.name, <<"_", "_">>)
IsDerived(v) == startswith(v.name, <<"_", "_">>)

\* The innermost get_cookiecutter_values call and its variable.
Top == stack[Len(stack)]
TopVar == NodeAt(context, Top.path)
SetTop(f) == [stack EXCEPT ![Len(stack)] = f]

\* An exception leaves prompt_for_config: the call stack unwinds and the
\* local cookiecutter_dict is dropped with it.
\* exc records the exception type, the variable name its message gives, whether
\* it carries the context and (history) the variable that was being resolved.
Raise(type, name, carries, offender) ==
    /\ pc' = "raised"
    /\ exc' = [type |-> type, name |-> name, context |-> carries, offender |-> offender]
    /\ stack' = <<>>
    /\ UNCHANGED <<context, no_input, cookiecutter_dict, count, size, idx, run, first>>

\* prompt.py 366-368 and 388-390: UndefinedError raised under the try is
\* re-raised as UndefinedVariableInTemplate(msg naming v.name, err, context).
RaiseUndefinedVariableInTemplate(offender) ==
    Raise("UndefinedVariableInTemplate", Cur.name, TRUE, offender)

\* cookiecutter_dict[key] = value
Assign(key, value) ==
    /\ cookiecutter_dict' = Put(cookiecutter_dict, key, value)
    /\ writes' = Append(writes, key)

\* The operator is shown a prompt and answers it, with a bare Enter or not.
Prompted(key, kind, prefix, answer, bare) ==
    /\ asked' = asked \cup {[key |-> key, kind |-> kind, prefix |-> prefix, answer |-> answer]}
    /\ typed' = (typed \/ ~bare)

\* A dict that outlives the call: what the previous call left in it.
KeptDict == cookiecutter_dict

\* prompt.py 340: cookiecutter_dict = OrderedDict([])
NewOrderedDict == <<>>

\* prompt.py 340-348
Begin ==
    /\ pc = "idle"
    /\ cookiecutter_dict' = NewOrderedDict
    /\ count' = 0
    /\ size' = Cardinality({j \in DOMAIN TopVars : ~startswith(TopVars[j].name, <<"_">>)})
    /\ pc' = "pass1"
    /\ idx' = 1
    /\ asked' = {}
    /\ typed' = FALSE
    /\ rendered' = {}
    /\ writes' = <<>>
    /\ UNCHANGED <<context, no_input, stack, exc, run, first>>
    /\ UNCHANGED tool_vars

\* prompt.py 350-352
Pass1Private ==
    /\ pc = "pass1" /\ stack = <<>> /\ idx <= Len(TopVars)
    /\ IsPrivate(Cur)
    /\ Assign(Cur.name, Cur.value)
    /\ idx' = idx + 1
    /\ UNCHANGED <<context, no_input, count, size, pc, stack, exc, asked, typed, rendered, run, first>>
    /\ UNCHANGED tool_vars

\* prompt.py 353-355
Pass1Derived ==
    /\ pc = "pass1" /\ stack = <<>> /\ idx <= Len(TopVars)
    /\ IsDerived(Cur)
    /\ LET val == render_variable(Cur.value, cookiecutter_dict)
       IN  IF val = UndefinedError
           THEN /\ Raise("UndefinedError", <<>>, FALSE, Cur.name)
                /\ UNCHANGED <<asked, typed, rendered, writes>>
           ELSE /\ Assign(Cur.name, val)
                /\ rendered' = rendered \cup {Cur.name}
                /\ idx' = idx + 1
                /\ UNCHANGED <<context, no_input, count, size, pc, stack, exc, asked, typed, run, first>>
    /\ UNCHANGED tool_vars

\* prompt.py 357-365: the call of get_cookiecutter_values for a top-level variable
Pass1Call ==
    /\ pc = "pass1" /\ stack = <<>> /\ idx <= Len(TopVars)
    /\ ~startswith(Cur.name, <<"_">>)
    /\ count' = IF Cur.value.t # "dict" THEN count + 1 ELSE count
    /\ stack' = <<[path |-> <<idx>>, name |-> Cur.name,
                   prefix |-> IF Cur.value.t # "dict" THEN <<count + 1, size>> ELSE NoPrefix,
                   stage |-> "value", k |-> 1]>>
    /\ UNCHANGED <<context, no_input, cookiecutter_dict, size, pc, idx, exc,
                   asked, typed, rendered, writes, run, first>>
    /\ UNCHANGED tool_vars

\* The value has been stored (or, for a dict, left out): go on to the branches.
ToBranches == stack' = SetTop([Top EXCEPT !.stage = "branches"])

AtValue == pc = "pass1" /\ stack # <<>> /\ Top.stage = "value"

\* prompt.py 465-470, prompt_choice_for_config 326-329, read_user_choice 100-134
ChoiceVariable ==
    /\ AtValue
    /\ TopVar.value.t = "list"
    /\ LET rendered_options == render_variable(TopVar.value, cookiecutter_dict)
       IN  IF rendered_options = UndefinedError
           THEN RaiseUndefinedVariableInTemplate(TopVar.name) /\ UNCHANGED <<asked, typed, rendered, writes>>
           ELSE IF rendered_options.items = <<>>
           THEN /\ Raise(IF no_input THEN "IndexError" ELSE "ValueError", <<>>, FALSE, TopVar.name)
                /\ UNCHANGED <<asked, typed, rendered, writes>>
           ELSE IF ~no_input /\ \E j \in DOMAIN rendered_options.items :
                                   ~HasItem(rendered_options.items[j], Str(<<"name">>))
           THEN Raise("KeyError", <<>>, FALSE, TopVar.name) /\ UNCHANGED <<asked, typed, rendered, writes>>
           ELSE \E answer \in IF no_input THEN {<<>>}
                              ELSE {<<>>} \cup {IntStr(n) : n \in 1..(Len(rendered_options.items) + 1)} :
                  LET val == prompt_choice_for_config(rendered_options.items, no_input, answer)
                  IN  /\ IF no_input THEN UNCHANGED <<asked, typed>>
                                     ELSE Prompted(Top.name, "choice", Top.prefix, [text |-> answer], answer = <<>>)
                      /\ IF val = InvalidResponse
                         THEN UNCHANGED <<context, no_input, cookiecutter_dict, count, size, pc,
                                          idx, stack, exc, rendered, writes, run, first>>
                         ELSE IF ~HasItem(val, Str(<<"name">>))
                         THEN Raise("KeyError", <<>>, FALSE, TopVar.name) /\ UNCHANGED <<rendered, writes>>
                         ELSE /\ Assign(Top.name, Item(val, Str(<<"name">>)))
                              /\ rendered' = rendered \cup {Top.name}
                              /\ ToBranches
                              /\ UNCHANGED <<context, no_input, count, size, pc, idx, exc,
                                             run, first>>
    /\ UNCHANGED tool_vars

YesNoAnswers == {<<>>, <<"Y">>, <<" ", "n", "o">>, <<"u", "n", "s", "u", "r", "e">>}

\* prompt.py 471-478
BooleanVariable ==
    /\ AtValue
    /\ TopVar.value.t = "bool"
    /\ IF no_input
       THEN /\ Assign(Top.name, render_variable(TopVar.value, cookiecutter_dict))
            /\ rendered' = rendered \cup {Top.name}
            /\ ToBranches
            /\ UNCHANGED <<context, no_input, count, size, pc, idx, exc, asked, typed, run, first>>
       ELSE \E answer \in YesNoAnswers :
              LET val == read_user_yes_no(TopVar.value, answer)
              IN  /\ Prompted(Top.name, "yes_no", Top.prefix, [text |-> answer], answer = <<>>)
                  /\ IF val = InvalidResponse
                     THEN UNCHANGED <<context, no_input, cookiecutter_dict, count, size, pc,
                                      idx, stack, exc, rendered, writes, run, first>>
                     ELSE /\ Assign(Top.name, val)
                          /\ ToBranches
                          /\ UNCHANGED <<context, no_input, count, size, pc, idx, exc,
                                         rendered, run, first>>
    /\ UNCHANGED tool_vars

TextAnswers == {<<>>, <<"blue">>}

\* prompt.py 479-486, read_user_variable 36-41
RegularVariable ==
    /\ AtValue
    /\ TopVar.value.t \notin {"list", "bool", "dict"}
    /\ LET val == render_variable(TopVar.value, cookiecutter_dict)
       IN  IF val = UndefinedError
           THEN RaiseUndefinedVariableInTemplate(TopVar.name) /\ UNCHANGED <<asked, typed, rendered, writes>>
           ELSE IF no_input
           THEN /\ Assign(Top.name, val)
                /\ rendered' = rendered \cup {Top.name}
                /\ ToBranches
                /\ UNCHANGED <<context, no_input, count, size, pc, idx, exc, asked, typed, run, first>>
           ELSE \E answer \in TextAnswers :
                  LET variable == read_user_variable(val, answer)
                  IN  /\ Prompted(Top.name, "text", Top.prefix, [text |-> answer], answer = <<>>)
                      /\ IF variable = None
                         THEN UNCHANGED <<context, no_input, cookiecutter_dict, count, size, pc,
                                          idx, stack, exc, rendered, writes, run, first>>
                         ELSE /\ Assign(Top.name, variable)
                              /\ rendered' = rendered \cup {Top.name}
                              /\ ToBranches
                              /\ UNCHANGED <<context, no_input, count, size, pc, idx, exc,
                                             run, first>>
    /\ UNCHANGED tool_vars

\* prompt.py 465-486: a dict value takes none of the three arms
DictVariable ==
    /\ AtValue
    /\ TopVar.value.t = "dict"
    /\ ToBranches
    /\ UNCHANGED <<context, no_input, cookiecutter_dict, count, size, pc, idx, exc,
                   asked, typed, rendered, writes, run, first>>
    /\ UNCHANGED tool_vars

AtBranch == pc = "pass1" /\ stack # <<>> /\ Top.stage = "branches"
branch == TopVar.variables[Top.k]

\* prompt.py 488: cookiecutter_dict[name] of a name that was never assigned
BranchKeyError ==
    /\ AtBranch /\ Top.k <= Len(TopVar.variables)
    /\ Top.name \notin Keys(cookiecutter_dict)
    /\ Raise("KeyError", <<>>, FALSE, TopVar.name)
    /\ UNCHANGED <<asked, typed, rendered, writes>>
    /\ UNCHANGED tool_vars

\* prompt.py 488-489: the branch matches and is resolved by a nested call
BranchTaken ==
    /\ AtBranch /\ Top.k <= Len(TopVar.variables)
    /\ Top.name \in Keys(cookiecutter_dict)
    /\ PyEq(branch.matches, Get(cookiecutter_dict, Top.name))
    /\ stack' = Append(SetTop([Top EXCEPT !.k = Top.k + 1]),
                       [path |-> Append(Top.path, Top.k),
                        name |-> Top.name \o <<"/">> \o branch.name,
                        prefix |-> Top.prefix, stage |-> "value", k |-> 1])
    /\ UNCHANGED <<context, no_input, cookiecutter_dict, count, size, pc, idx, exc,
                   asked, typed, rendered, writes, run, first>>
    /\ UNCHANGED tool_vars

\* prompt.py 487-488: the branch does not match
BranchSkipped ==
    /\ AtBranch /\ Top.k <= Len(TopVar.variables)
    /\ Top.name \in Keys(cookiecutter_dict)
    /\ ~PyEq(branch.matches, Get(cookiecutter_dict, Top.name))
    /\ stack' = SetTop([Top EXCEPT !.k = Top.k + 1])
    /\ UNCHANGED <<context, no_input, cookiecutter_dict, count, size, pc, idx, exc,
                   asked, typed, rendered, writes, run, first>>
    /\ UNCHANGED tool_vars

\* prompt.py 490: return; the outermost call returns into the first pass
ReturnValues ==
    /\ AtBranch /\ Top.k > Len(TopVar.variables)
    /\ stack' = SubSeq(stack, 1, Len(stack) - 1)
    /\ idx' = IF Len(stack) = 1 THEN idx + 1 ELSE idx
    /\ UNCHANGED <<context, no_input, cookiecutter_dict, count, size, pc, exc,
                   asked, typed, rendered, writes, run, first>>
    /\ UNCHANGED tool_vars

\* prompt.py 349, 371: the first loop is exhausted
Pass1End ==
    /\ pc = "pass1" /\ stack = <<>> /\ idx > Len(TopVars)
    /\ pc' = "pass2"
    /\ idx' = 1
    /\ UNCHANGED <<context, no_input, cookiecutter_dict, count, size, stack, exc,
                   asked, typed, rendered, writes, run, first>>
    /\ UNCHANGED tool_vars

\* prompt.py 373-378: private variables and non-dict values are passed over
Pass2Skip ==
    /\ pc = "pass2" /\ idx <= Len(TopVars)
    /\ IsPrivate(Cur) \/ Cur.value.t # "dict"
    /\ idx' = idx + 1
    /\ UNCHANGED <<context, no_input, cookiecutter_dict, count, size, pc, stack, exc,
                   asked, typed, rendered, writes, run, first>>
    /\ UNCHANGED tool_vars

JsonAnswers == {NoAnswer, OrderedDict(<<<<Str(<<"k">>), Str(<<"blue">>)>>>>), List(<<>>), Undecodable}

\* prompt.py 378-390
Pass2Dict ==
    /\ pc = "pass2" /\ idx <= Len(TopVars)
    /\ ~IsPrivate(Cur) /\ Cur.value.t = "dict"
    /\ LET val == render_variable(Cur.value, cookiecutter_dict)
           prefix == <<count + 1, size>>
       IN  IF val = UndefinedError
           THEN /\ RaiseUndefinedVariableInTemplate(Cur.name)
                /\ UNCHANGED <<asked, typed, rendered, writes>>
           ELSE \E answer \in IF ~no_input /\ ~IsDerived(Cur) THEN JsonAnswers ELSE {NoAnswer} :
                  LET user_value == read_user_dict(val, answer)
                  IN  /\ IF ~no_input /\ ~IsDerived(Cur)
                         THEN Prompted(Cur.name, "dict", prefix, [json |-> answer], answer = NoAnswer)
                         ELSE UNCHANGED <<asked, typed>>
                      /\ IF user_value = InvalidResponse
                         THEN UNCHANGED <<context, no_input, cookiecutter_dict, count, size, pc,
                                          idx, stack, exc, rendered, writes, run, first>>
                         ELSE /\ Assign(Cur.name, user_value)
                              /\ rendered' = rendered \cup {Cur.name}
                              /\ count' = count + 1
                              /\ idx' = idx + 1
                              /\ UNCHANGED <<context, no_input, size, pc, stack, exc, run, first>>
    /\ UNCHANGED tool_vars

\* prompt.py 392
Return ==
    /\ pc = "pass2" /\ idx > Len(TopVars)
    /\ pc' = "returned"
    /\ UNCHANGED <<context, no_input, cookiecutter_dict, count, size, idx, stack, exc,
                   asked, typed, rendered, writes, run, first>>
    /\ UNCHANGED tool_vars

(***************************************************************************)
(* The variable trees resolved                                             *)
(***************************************************************************)
MaxVars == 2       \* top-level variables of a flat tree
MaxDepth == 2      \* levels of branches below a top-level variable
MaxBranches == 2   \* branches of one variable

Red == Str(<<"red">>)
Blue == Str(<<"blue">>)
Option(name) == Dict(<<<<Str(<<"name">>), name>>>>)
Choice == List(<<Option(Red), Option(Blue)>>)
DictOf(v) == Dict(<<<<Str(<<"k">>), v>>>>)

Prefixes == {<<>>, <<"_">>, <<"_", "_">>}
TopLetters == <<"a", "b", "c", "d">>
BranchLetters == <<"m", "n", "o", "p">>
SiblingLetters == <<"x", "y", "z">>

\* Flat trees: each top-level variable is regular, private or derived and
\* holds a literal, a template naming a sibling (with or without a fallback),
\* a choice or a dict whose content names a sibling; a variable after the
\* second holds a literal or a template.
Sibling(j) == <<TopLetters[IF j = 1 THEN 2 ELSE 1]>>
FlatValues(j) ==
    IF j <= 2
    THEN {Red, Tmpl(Sibling(j)), TmplDefault(Sibling(j), "none"), Choice,
          DictOf(Tmpl(Sibling(j))), DictOf(TmplDefault(Sibling(j), "none"))}
    ELSE {Red, Tmpl(Sibling(j))}
FlatVars(j) == {Var(p \o <<TopLetters[j]>>, v, <<>>, None) : p \in Prefixes, v \in FlatValues(j)}
RECURSIVE FlatSeqs(_)
FlatSeqs(n) ==
    IF n = 0 THEN {<<>>}
    ELSE {Append(front, v) : front \in FlatSeqs(n - 1), v \in FlatVars(n)}
FlatTrees == UNION {FlatSeqs(n) : n \in 1..MaxVars}

\* Branching trees: one regular top-level variable "a" with branches nested
\* up to MaxDepth deep.  A branch is regular, private or derived, matches a
\* str, None (the default of matches) or the number 1, and either is a leaf
\* (a literal, a template naming "a" or the undefined "z", a choice, a dict) or carries
\* branches of its own; further branches of the same variable are
\* leaves that match "red".  Below the second level a branch is a literal or
\* a template, alone under a parent that matches "red".
Matches == {Red, None, PyInt(1)}
LeafKinds == {<<<<>>, Red>>, <<<<>>, Tmpl(<<"a">>)>>, <<<<>>, Tmpl(<<"z">>)>>,
              <<<<>>, List(<<Option(Tmpl(<<"a">>)), Option(Blue)>>)>>,
              <<<<>>, DictOf(Tmpl(<<"a">>))>>,
              <<<<"_">>, Tmpl(<<"a">>)>>, <<<<"_", "_">>, Tmpl(<<"a">>)>>}
DeepLeafKinds == {<<<<>>, Red>>, <<<<>>, Tmpl(<<"a">>)>>}
ExtraBranches(n) == {Var(<<SiblingLetters[n]>>, Red, <<>>, Red)}
RECURSIVE Branches(_)
RECURSIVE BranchSeqs(_, _)
BranchSeqs(d, n) ==
    IF n = 1 THEN {<<b>> : b \in Branches(d)}
    ELSE {Append(front, b) : front \in BranchSeqs(d, n - 1), b \in ExtraBranches(n - 1)}
Branches(d) ==
    {Var(k[1] \o <<BranchLetters[d]>>, k[2], <<>>, m) :
        k \in IF d <= 2 THEN LeafKinds ELSE DeepLeafKinds, m \in Matches}
    \cup (IF d = MaxDepth THEN {}
          ELSE {Var(<<BranchLetters[d]>>, Red, bs, m) :
                  bs \in UNION {BranchSeqs(d + 1, n) :
                                  n \in 1..(IF d = 1 THEN MaxBranches ELSE 1)},
                  m \in IF d = 1 THEN Matches ELSE {Red}})
ParentValues == {Red, Bool(TRUE), None, Choice, List(<<>>), DictOf(Red)}
BranchingTrees ==
    {<<Var(<<"a">>, v, bs, None)>> :
        v \in ParentValues,
        bs \in {<<>>} \cup UNION {BranchSeqs(1, n) : n \in 1..MaxBranches}}

Trees == FlatTrees \cup BranchingTrees

(***************************************************************************)
(* Two calls of prompt_for_config on the same context: the first with      *)
(* no_input, the second in either mode.                                    *)
(***************************************************************************)
\* What the caller of prompt_for_config receives.
Outcome ==
    [pc |-> pc, value |-> IF pc = "returned" THEN cookiecutter_dict ELSE <<>>, exc |-> exc]

NoCall == [op |-> "none"]

\* prompt_and_delete has not been called.
DeleteIdle ==
    /\ fs = {}
    /\ delete_call = NoCall

\* No tree has been built for update or to_cookiecutter_dict.
TreeIdle ==
    /\ self = [t |-> "none"]
    /\ tree_call = NoCall

\* No call of dump, load or choose_nested_template has been made.
ToolsIdle ==
    /\ DeleteIdle
    /\ TreeIdle
    /\ replay_dirs = {}
    /\ replay_files = {}
    /\ replay_dumped = {}
    /\ replay_call = NoCall
    /\ replay_ops = 0
    /\ nested_call = NoCall

\* prompt_for_config has not been called on context.
ResolverIdle ==
    /\ no_input = TRUE
    /\ cookiecutter_dict = <<>>
    /\ count = 0
    /\ size = 0
    /\ pc = "idle"
    /\ idx = 1
    /\ stack = <<>>
    /\ exc = NoExc
    /\ asked = {}
    /\ typed = FALSE
    /\ rendered = {}
    /\ writes = <<>>
    /\ run = 1
    /\ first = [pc |-> "idle", value |-> <<>>, exc |-> NoExc]

Init ==
    /\ context \in {Var(<<>>, None, tree, None) : tree \in Trees}
    /\ ResolverIdle
    /\ ToolsIdle

\* The caller keeps the first outcome and calls prompt_for_config again.
Again ==
    /\ run = 1 /\ pc \in {"returned", "raised"}
    /\ first' = Outcome
    /\ run' = 2
    /\ no_input' \in BOOLEAN
    /\ pc' = "idle"
    /\ exc' = NoExc
    /\ UNCHANGED <<context, cookiecutter_dict, count, size, idx, stack, asked, typed, rendered, writes>>
    /\ UNCHANGED tool_vars

Next ==
    \/ Begin
    \/ Pass1Private
    \/ Pass1Derived
    \/ Pass1Call
    \/ ChoiceVariable
    \/ BooleanVariable
    \/ RegularVariable
    \/ DictVariable
    \/ BranchKeyError
    \/ BranchTaken
    \/ BranchSkipped
    \/ ReturnValues
    \/ Pass1End
    \/ Pass2Skip
    \/ Pass2Dict
    \/ Return
    \/ Again

Spec == Init /\ [][Next]_vars

TypeOK ==
    /\ pc \in {"idle", "pass1", "pass2", "returned", "raised"}
    /\ run \in {1, 2}

(***************************************************************************)
(* replay.py: dump and load over a file system of directories and files,   *)
(* and PyYAML's safe_dump and safe_load between Python values and          *)
(* documents.                                                              *)
(***************************************************************************)
endswith(s, suffix) ==
    Len(s) >= Len(suffix) /\ SubSeq(s, Len(s) - Len(suffix) + 1, Len(s)) = suffix

\* os.path.join(a, b)
os_path_join(a, b) ==
    IF startswith(b, <<"/">>) THEN b
    ELSE IF a = <<>> \/ endswith(a, <<"/">>) THEN a \o b
    ELSE a \o <<"/">> \o b

\* get_file_name with the primary extension for every name.
get_file_name_AlwaysYaml(replay_dir, template_name) ==
    os_path_join(replay_dir, template_name \o <<".", "y", "a", "m", "l">>)

\* replay.py 20-24
get_file_name(replay_dir, template_name) ==
    LET suffix == IF ~endswith(template_name, <<".", "y", "a", "m", "l">>)
                  THEN <<".", "y", "a", "m", "l">>
                  ELSE <<".", "j", "s", "o", "n">>
        file_name == template_name \o suffix
    IN  os_path_join(replay_dir, file_name)

\* The text fragments of the keys of the documents, in the order of Python's
\* str comparison.
KeyOrder == <<"/", "_cookiecutter", "a", "cookiecutter", "m", "matches", "metadata",
              "name", "other", "prompt", "value", "variables">>
Rank(c) == CHOOSE r \in DOMAIN KeyOrder : KeyOrder[r] = c

\* s < t for strs over the fragments of KeyOrder.
RECURSIVE StrLess(_, _)
StrLess(x, y) ==
    IF y = <<>> THEN FALSE
    ELSE IF x = <<>> THEN TRUE
    ELSE IF x[1] # y[1] THEN Rank(x[1]) < Rank(y[1])
    ELSE StrLess(Tail(x), Tail(y))

\* sorted(pairs) by key, for str keys.
RECURSIVE SortPairs(_)
SortPairs(ps) ==
    IF ps = <<>> THEN <<>>
    ELSE LET least == CHOOSE j \in DOMAIN ps :
                        \A i \in DOMAIN ps : i = j \/ ~StrLess(ps[i][1].s, ps[j][1].s)
         IN  <<ps[least]>> \o SortPairs([i \in 1..(Len(ps) - 1) |->
                                           IF i < least THEN ps[i] ELSE ps[i + 1]])

RepresenterError == [y |-> "RepresenterError"]
EmptyDocument == [y |-> "empty"]

\* yaml.safe_dump: the document written for a value.  A dict is written with
\* its keys sorted; SafeRepresenter has no representer for an OrderedDict or
\* for an object, and raises RepresenterError.
RECURSIVE safe_dump(_)
RECURSIVE DumpPairs(_)
RECURSIVE DumpItems(_)
DumpPairs(ps) ==
    IF ps = <<>> THEN [y |-> "map", items |-> <<>>]
    ELSE LET k == safe_dump(ps[1][1])
             v == safe_dump(ps[1][2])
             rest == DumpPairs(Tail(ps))
         IN  IF RepresenterError \in {k, v, rest} THEN RepresenterError
             ELSE [y |-> "map", items |-> <<<<k, v>>>> \o rest.items]
DumpItems(xs) ==
    IF xs = <<>> THEN [y |-> "seq", items |-> <<>>]
    ELSE LET x == safe_dump(xs[1])
             rest == DumpItems(Tail(xs))
         IN  IF RepresenterError \in {x, rest} THEN RepresenterError
             ELSE [y |-> "seq", items |-> <<x>> \o rest.items]
safe_dump(v) ==
    CASE v.t = "none" -> [y |-> "null"]
      [] v.t = "bool" -> [y |-> "bool", b |-> v.b]
      [] v.t = "int" -> [y |-> "int", n |-> v.n]
      [] v.t = "str" -> [y |-> "str", s |-> v.s]
      [] v.t = "list" -> DumpItems(v.items)
      [] v.t = "dict" -> DumpPairs(SortPairs(v.items))
      [] v.t \in {"odict", "var"} -> RepresenterError

\* yaml.safe_load: the value read from a document; an empty file reads as None.
RECURSIVE safe_load(_)
safe_load(doc) ==
    CASE doc.y \in {"null", "empty"} -> None
      [] doc.y = "bool" -> Bool(doc.b)
      [] doc.y = "int" -> PyInt(doc.n)
      [] doc.y = "str" -> Str(doc.s)
      [] doc.y = "seq" -> List([j \in DOMAIN doc.items |-> safe_load(doc.items[j])])
      [] doc.y = "map" -> Dict([j \in DOMAIN doc.items |->
                                 <<safe_load(doc.items[j][1]), safe_load(doc.items[j][2])>>])

\* d.get(key, default) of a dict value
DictGet(d, key, default) == IF HasItem(d, Str(key)) THEN Item(d, Str(key)) ELSE default

\* variables.py 14-23, for a dict d whose name and prompt are strs
RECURSIVE from_dict(_)
from_dict(d) ==
    CookiecutterVariable(
        DictGet(d, <<"name">>, Str(<<>>)).s,
        DictGet(d, <<"value">>, None),
        DictGet(d, <<"prompt">>, DictGet(d, <<"name">>, Str(<<>>))).s,
        LET vs == DictGet(d, <<"variables">>, List(<<>>)).items
        IN  [j \in DOMAIN vs |-> from_dict(vs[j])],
        DictGet(d, <<"matches">>, None),
        DictGet(d, <<"metadata">>, None))

Files == {f[1] : f \in replay_files}
Content(file) == (CHOOSE f \in replay_files : f[1] = file)[2]
Write(files, file, doc) == {f \in files : f[1] # file} \cup {<<file, doc>>}
Dumped(file) == (CHOOSE f \in replay_dumped : f[1] = file)[2]

COOKIECUTTER == Str(<<"cookiecutter">>)

\* The contexts handed to dump.
TreeDict(fields) ==
    Dict(<<<<Str(<<"name">>), Str(<<>>)>>,
           <<Str(<<"variables">>), List(<<Dict(fields)>>)>>>>)
FullFields ==
    <<<<Str(<<"name">>), Str(<<"a">>)>>, <<Str(<<"value">>), Red>>,
      <<Str(<<"prompt">>), Str(<<"a">>)>>, <<Str(<<"variables">>), List(<<>>)>>,
      <<Str(<<"matches">>), None>>, <<Str(<<"metadata">>), None>>>>
FlatItems == <<<<Str(<<"a">>), Red>>, <<Str(<<"a", "/", "m">>), Blue>>>>
ReplayContexts ==
    {Dict(<<<<COOKIECUTTER, TreeDict(FullFields)>>>>),
     Dict(<<<<COOKIECUTTER, TreeDict(SubSeq(FullFields, 1, 2))>>>>),
     Dict(<<<<COOKIECUTTER, Dict(FlatItems)>>>>),
     Dict(<<<<COOKIECUTTER, Dict(FlatItems)>>, <<Str(<<"_cookiecutter">>), Dict(FlatItems)>>>>),
     Dict(<<<<COOKIECUTTER, OrderedDict(FlatItems)>>>>),
     Dict(<<<<COOKIECUTTER, Var(<<>>, None, <<Var(<<"a">>, Red, <<>>, None)>>, None)>>>>),
     Dict(<<<<Str(<<"other">>), Dict(FlatItems)>>>>),
     Dict(<<>>)}
ReplayDirs == {<<"r">>}
TemplateNames == {<<"t">>, <<"t", ".", "y", "a", "m", "l">>, <<"t", ".", "j", "s", "o", "n">>}
MaxReplayOps == 3

\* replay.py 27-37.  make_sure_path_exists creates the directory; open(.., 'w')
\* creates or empties the file before safe_dump writes the document.
\* cookiecutter.utils.make_sure_path_exists: the directory exists afterwards.
make_sure_path_exists(dirs, path) == dirs \cup {path}

dump(replay_dir, template_name, ctx) ==
    /\ replay_ops < MaxReplayOps
    /\ replay_ops' = replay_ops + 1
    /\ replay_dirs' = make_sure_path_exists(replay_dirs, replay_dir)
    /\ IF ~HasItem(ctx, COOKIECUTTER)
       THEN /\ replay_call' = [op |-> "dump", dir |-> replay_dir, name |-> template_name,
                               context |-> ctx, exc |-> "ValueError"]
            /\ UNCHANGED <<replay_files, replay_dumped>>
       ELSE LET replay_file == get_file_name(replay_dir, template_name)
                doc == safe_dump(ctx)
            IN  /\ replay_files' = Write(replay_files, replay_file,
                                         IF doc = RepresenterError THEN EmptyDocument ELSE doc)
                /\ replay_dumped' = Write(replay_dumped, replay_file, ctx)
                /\ replay_call' = [op |-> "dump", dir |-> replay_dir, name |-> template_name,
                                   context |-> ctx, file |-> replay_file,
                                   exc |-> IF doc = RepresenterError THEN "RepresenterError"
                                           ELSE "none"]
    /\ UNCHANGED <<resolver_vars, nested_call, delete_vars, tree_vars>>

Dump == \E d \in ReplayDirs, n \in TemplateNames, ctx \in ReplayContexts : dump(d, n, ctx)

\* replay.py 40-52
load(replay_dir, template_name) ==
    /\ replay_ops < MaxReplayOps
    /\ replay_ops' = replay_ops + 1
    /\ LET replay_file == get_file_name(replay_dir, template_name)
           call == [op |-> "load", dir |-> replay_dir, name |-> template_name,
                    file |-> replay_file]
       IN  IF replay_file \notin Files
           THEN replay_call' = call @@ [exc |-> "FileNotFoundError"]
           ELSE LET ctx == safe_load(Content(replay_file))
                IN  IF ctx.t # "dict"
                    THEN replay_call' = call @@ [exc |-> "TypeError"]
                    ELSE IF ~HasItem(ctx, COOKIECUTTER)
                    THEN replay_call' = call @@ [exc |-> "ValueError"]
                    ELSE IF Item(ctx, COOKIECUTTER).t # "dict"
                    THEN replay_call' = call @@ [exc |-> "AttributeError"]
                    ELSE replay_call' = call @@
                           [exc |-> "none",
                            result |-> Dict(Put(ctx.items, COOKIECUTTER,
                                                from_dict(Item(ctx, COOKIECUTTER))))]
    /\ UNCHANGED <<replay_dirs, replay_files, replay_dumped>>
    /\ UNCHANGED <<resolver_vars, nested_call, delete_vars, tree_vars>>

Load == \E d \in ReplayDirs, n \in TemplateNames : load(d, n)

\* A replay file written outside this program: a document without the
\* reserved key.
ForeignFile ==
    <<get_file_name(<<"r">>, <<"t">>),
      [y |-> "map", items |-> <<<<[y |-> "str", s |-> <<"other">>], [y |-> "null"]>>>>]>>

InitReplay ==
    /\ context = Var(<<>>, None, <<>>, None)
    /\ ResolverIdle
    /\ replay_dirs \in {{}, {<<"r">>}}
    /\ replay_files \in {{}, {ForeignFile}}
    /\ replay_files # {} => replay_dirs # {}
    /\ replay_dumped = {}
    /\ replay_call = NoCall
    /\ replay_ops = 0
    /\ nested_call = NoCall
    /\ DeleteIdle
    /\ TreeIdle

NextReplay ==
    \/ Dump
    \/ Load

SpecReplay == InitReplay /\ [][NextReplay]_vars

(***************************************************************************)
(* choose_nested_template and pathlib.  A path str is written one segment  *)
(* or one "/" per fragment.                                                *)
(***************************************************************************)
\* s.split("/"): the runs of fragments between the "/" of s, empty runs included.
RECURSIVE Split(_)
Split(s) ==
    IF \A j \in DOMAIN s : s[j] # "/" THEN <<s>>
    ELSE LET cut == CHOOSE j \in DOMAIN s : s[j] = "/" /\ \A i \in 1..(j - 1) : s[i] # "/"
         IN  <<SubSeq(s, 1, cut - 1)>> \o Split(SubSeq(s, cut + 1, Len(s)))

RECURSIVE Filter(_, _)
Filter(xs, drop) ==
    IF xs = <<>> THEN <<>>
    ELSE (IF xs[1] \in drop THEN <<>> ELSE <<xs[1]>>) \o Filter(Tail(xs), drop)

\* pathlib.Path(s): the root flag and the parts; empty and "." segments are
\* dropped by the parser.
Path(s) == [root |-> startswith(s, <<"/">>), parts |-> Filter(Split(s), {<<>>, <<".">>})]
is_absolute(path) == path.root

\* path / other
Div(path, other) ==
    IF other.root THEN other ELSE [root |-> path.root, parts |-> path.parts \o other.parts]

\* The parts with every ".." applied; "/.." is "/".
RECURSIVE Collapse(_, _)
Collapse(done, parts) ==
    IF parts = <<>> THEN done
    ELSE IF parts[1] = <<"..">>
    THEN Collapse(IF done = <<>> THEN <<>> ELSE SubSeq(done, 1, Len(done) - 1), Tail(parts))
    ELSE Collapse(Append(done, parts[1]), Tail(parts))

\* Path.resolve() of an absolute path in a file system without symlinks.
resolve(path) == [root |-> path.root, parts |-> Collapse(<<>>, path.parts)]

\* str(path) of an absolute path
PathStr(path) == <<"/">> \o Join(path.parts, <<"/">>)

\* prompt.py 304-310 and 395-413: the outcome of choose_nested_template for
\* the options in the variable's metadata; answer is the operator's.
\* _prompts_from_options reads every option's name first.
choose_nested_template(metadata, repo_dir, noinput, answer) ==
    LET call == [op |-> "choose", metadata |-> metadata, repo_dir |-> repo_dir,
                 no_input |-> noinput]
        options == metadata.items
        val == IF noinput THEN options[1] ELSE read_user_choice(options, answer)
        template == Item(val, Str(<<"path">>))
        repo == resolve(Path(repo_dir))
    IN  IF \E j \in DOMAIN options : ~HasItem(options[j], Str(<<"name">>))
        THEN call @@ [exc |-> "KeyError", selected |-> None]
        ELSE IF options = <<>>
        THEN call @@ [exc |-> IF noinput THEN "IndexError" ELSE "ValueError", selected |-> None]
        ELSE IF ~HasItem(val, Str(<<"path">>))
        THEN call @@ [exc |-> "KeyError", selected |-> val]
        ELSE IF template = None \/ template = Str(<<>>) \/ is_absolute(Path(template.s))
        THEN call @@ [exc |-> "ValueError", selected |-> val]
        ELSE call @@ [exc |-> "none", selected |-> val,
                      result |-> PathStr(resolve(Div(repo, Path(template.s))))]

MaxPathLen == 2    \* segments of a template path
Segments == {<<"sub">>, <<"app">>, <<"..">>, <<".">>}
RECURSIVE SegmentSeqs(_)
SegmentSeqs(n) ==
    IF n = 0 THEN {<<>>}
    ELSE {Append(front, g) : front \in SegmentSeqs(n - 1), g \in Segments}
PathStrs ==
    {lead \o Join(segs, <<"/">>) :
        lead \in {<<>>, <<"/">>}, segs \in UNION {SegmentSeqs(n) : n \in 0..MaxPathLen}}
TemplateOptions ==
    {Dict(<<<<Str(<<"name">>), Red>>, <<Str(<<"path">>), Str(path)>>>>) : path \in PathStrs}
    \cup {Dict(<<<<Str(<<"name">>), Red>>, <<Str(<<"path">>), None>>>>),
          Dict(<<<<Str(<<"name">>), Red>>>>)}
SecondOptions ==
    {Dict(<<<<Str(<<"name">>), Blue>>, <<Str(<<"path">>), Str(path)>>>>) :
        path \in {<<"sub", "/", "app">>, <<"..", "/", "app">>}}
Metadatas ==
    {List(<<>>)} \cup {List(<<o>>) : o \in TemplateOptions}
    \cup {List(<<o1, o2>>) : o1 \in TemplateOptions, o2 \in SecondOptions}
RepoDirs == {<<"/", "repo">>, <<"/", "srv", "/", "..", "/", "repo">>}

\* The call of choose_nested_template, up to its end; an answer outside the
\* choices is asked again.
ChooseNestedTemplate ==
    /\ nested_call = NoCall
    /\ \E metadata \in Metadatas, repo_dir \in RepoDirs, noinput \in BOOLEAN,
          answer \in {<<>>, <<"1">>, <<"2">>, <<"3">>} :
          /\ noinput => answer = <<>>
          /\ (~noinput /\ metadata.items # <<>>
              /\ \A j \in DOMAIN metadata.items : HasItem(metadata.items[j], Str(<<"name">>)))
             => read_user_choice(metadata.items, answer) # InvalidResponse
          /\ nested_call' = choose_nested_template(metadata, repo_dir, noinput, answer)
    /\ UNCHANGED <<resolver_vars, replay_vars, delete_vars, tree_vars>>

InitNested ==
    /\ context = Var(<<>>, None, <<>>, None)
    /\ ResolverIdle
    /\ ToolsIdle

NextNested == ChooseNestedTemplate

SpecNested == InitNested /\ [][NextNested]_vars

(***************************************************************************)
(* prompt_and_delete over a file system: a set of <<path, kind>>, a path   *)
(* being its sequence of segments.                                         *)
(***************************************************************************)
\* bool(v) for the values read_user_yes_no returns: a bool, or the str default.
Truthy(v) == IF v.t = "bool" THEN v.b ELSE v.s # <<>>

\* os.path.isdir(path)
isdir(files, path) == <<path, "dir">> \in files

\* os.remove(path) of a file
remove(files, path) == files \ {<<path, "file">>}

\* utils.rmtree(path): the directory and everything below it is removed.
rmtree(files, path) ==
    {f \in files : ~(Len(f[1]) >= Len(path) /\ SubSeq(f[1], 1, Len(path)) = path)}

\* The path is left where it is.
KeepPath(files, path) == files

\* prompt.py 438-441
DeletePath(files, path) ==
    IF isdir(files, path) THEN rmtree(files, path) ELSE remove(files, path)

MaxAnswers == 2    \* answers the operator gives within one call of prompt_and_delete

\* The file system before the call: a cloned repository, a downloaded zip
\* file and a file of the user's.
Downloads ==
    {<<<<"repo">>, "dir">>, <<<<"repo", "f">>, "file">>, <<<<"repo", "sub">>, "dir">>,
     <<<<"repo", "sub", "g">>, "file">>, <<<<"repo.zip">>, "file">>, <<<<"keep">>, "file">>}
DownloadedPaths == {<<"repo">>, <<"repo", "sub">>, <<"repo.zip">>}

\* What the operator types at a yes/no prompt.
ConfirmAnswers ==
    {<<>>} \cup yes_choices \cup no_choices
    \cup {<<"Y">>, <<"N", "o">>, <<" ", "y", "e", "s", " ">>, <<"O", "F", "F">>,
          <<"m", "a", "y", "b", "e">>, <<"y", "e", "s", "!">>, <<"2">>, <<" ">>}

\* prompt.py 416-435: the call up to its first prompt; with no_input the path
\* is deleted without a prompt.
PromptAndDelete ==
    /\ delete_call = NoCall
    /\ \E path \in DownloadedPaths, noinput \in BOOLEAN :
         LET call == [op |-> "prompt_and_delete", path |-> path, no_input |-> noinput,
                      before |-> fs, answers |-> <<>>]
         IN  IF noinput
             THEN /\ fs' = DeletePath(fs, path)
                  /\ delete_call' = call @@ [pc |-> "returned", result |-> Bool(TRUE)]
             ELSE /\ fs' = fs
                  /\ delete_call' = call @@ [pc |-> "ok_to_delete", result |-> None]
    /\ UNCHANGED <<resolver_vars, replay_vars, nested_call, tree_vars>>

\* prompt.py 435-442: an answer to "Is it okay to delete and re-download it?"
OkToDelete ==
    /\ delete_call # NoCall /\ delete_call.pc = "ok_to_delete"
    /\ Len(delete_call.answers) < MaxAnswers
    /\ \E answer \in ConfirmAnswers :
         LET ok_to_delete == read_user_yes_no(Str(<<"yes">>), answer)
             heard == [delete_call EXCEPT !.answers = Append(@, answer)]
         IN  IF ok_to_delete = InvalidResponse
             THEN fs' = fs /\ delete_call' = heard
             ELSE IF Truthy(ok_to_delete)
             THEN /\ fs' = DeletePath(fs, delete_call.path)
                  /\ delete_call' = [heard EXCEPT !.pc = "returned", !.result = Bool(TRUE)]
             ELSE fs' = fs /\ delete_call' = [heard EXCEPT !.pc = "ok_to_reuse"]
    /\ UNCHANGED <<resolver_vars, replay_vars, nested_call, tree_vars>>

\* prompt.py 444-451: an answer to "Do you want to re-use the existing version?"
OkToReuse ==
    /\ delete_call # NoCall /\ delete_call.pc = "ok_to_reuse"
    /\ Len(delete_call.answers) < MaxAnswers
    /\ \E answer \in ConfirmAnswers :
         LET ok_to_reuse == read_user_yes_no(Str(<<"yes">>), answer)
             heard == [delete_call EXCEPT !.answers = Append(@, answer)]
         IN  /\ fs' = fs
             /\ IF ok_to_reuse = InvalidResponse
                THEN delete_call' = heard
                ELSE IF Truthy(ok_to_reuse)
                THEN delete_call' = [heard EXCEPT !.pc = "returned", !.result = Bool(FALSE)]
                ELSE delete_call' = [heard EXCEPT !.pc = "exited"]
    /\ UNCHANGED <<resolver_vars, replay_vars, nested_call, tree_vars>>

InitDelete ==
    /\ context = Var(<<>>, None, <<>>, None)
    /\ ResolverIdle
    /\ replay_dirs = {} /\ replay_files = {} /\ replay_dumped = {}
    /\ replay_call = NoCall /\ replay_ops = 0
    /\ nested_call = NoCall
    /\ TreeIdle
    /\ fs = Downloads
    /\ delete_call = NoCall

NextDelete ==
    \/ PromptAndDelete
    \/ OkToDelete
    \/ OkToReuse

SpecDelete == InitDelete /\ [][NextDelete]_vars

(***************************************************************************)
(* CookiecutterVariable.get, set, update and to_cookiecutter_dict.  update *)
(* assigns in place: self afterwards is the tree with the values replaced. *)
(* A flat map is a sequence of <<key, value>> in the order of the dict.    *)
(***************************************************************************)
\* variables.py 37-41: the position of the first child called name, 0 for the
\* default None.
get(node, name) ==
    IF \E j \in DOMAIN node.variables : node.variables[j].name = name
    THEN CHOOSE j \in DOMAIN node.variables :
            /\ node.variables[j].name = name
            /\ \A i \in 1..(j - 1) : node.variables[i].name # name
    ELSE 0

\* set that assigns every child called name.
set_EveryMatch(node, name, value) ==
    [node EXCEPT !.variables =
        [j \in DOMAIN node.variables |->
            IF node.variables[j].name = name
            THEN [node.variables[j] EXCEPT !.value = value]
            ELSE node.variables[j]]]

\* variables.py 43-47
set(node, name, value) ==
    IF get(node, name) = 0 THEN node
    ELSE [node EXCEPT !.variables[get(node, name)].value = value]

\* variables.py 52-59
RECURSIVE update(_, _)
update(node, d) ==
    IF d = <<>> THEN node
    ELSE LET k == d[1][1]
             v == d[1][2]
             parents == Split(k)
             child == get(node, parents[1])
             after ==
                 IF Len(parents) > 1
                 THEN IF child # 0
                      THEN [node EXCEPT !.variables[child] =
                               update(@, <<<<Join(Tail(parents), <<"/">>), v>>>>)]
                      ELSE node
                 ELSE IF get(node, k) # 0 THEN set(node, k, v) ELSE node
         IN  update(after, Tail(d))

\* to_cookiecutter_dict that keys every variable by its bare name.
RECURSIVE to_cookiecutter_dict_BareNames(_, _)
to_cookiecutter_dict_BareNames(node, parent) ==
    LET RECURSIVE From(_, _)
        From(j, d) ==
            IF j > Len(node.variables) THEN d
            ELSE LET v == node.variables[j]
                     below == to_cookiecutter_dict_BareNames(v, parent)
                     RECURSIVE Merge(_, _)
                     Merge(into, i) ==
                         IF i > Len(below) THEN into
                         ELSE Merge(Put(into, below[i][1], below[i][2]), i + 1)
                 IN  From(j + 1, Merge(Put(d, v.name, v.value), 1))
    IN  From(1, <<>>)

\* variables.py 25-31
RECURSIVE to_cookiecutter_dict(_, _)
to_cookiecutter_dict(node, parent) ==
    LET RECURSIVE From(_, _)
        From(j, d) ==
            IF j > Len(node.variables) THEN d
            ELSE LET v == node.variables[j]
                     name == parent \o v.name
                     below == to_cookiecutter_dict(v, name \o <<"/">>)
                     RECURSIVE Merge(_, _)
                     Merge(into, i) ==
                         IF i > Len(below) THEN into
                         ELSE Merge(Put(into, below[i][1], below[i][2]), i + 1)
                 IN  From(j + 1, Merge(Put(d, name, v.value), 1))
    IN  From(1, <<>>)

MaxKeys == 2    \* keys of a flat map handed to update

\* A variable with a prompt and metadata of its own.
Told(name, value, variables, matches) ==
    CookiecutterVariable(name, value, <<"?">> \o name, variables, matches,
                         Dict(<<<<Str(<<"of">>), Str(name)>>>>))

TreeRoot(variables) == Var(<<"r">>, None, variables, None)

\* Trees update and to_cookiecutter_dict are called on: two levels of
\* branches, two siblings of one name, a name holding "/", a name used at two
\* levels beside an empty name, and no variables.
UpdateTrees ==
    { TreeRoot(<<Told(<<"a">>, Red,
                      <<Told(<<"m">>, Red, <<Var(<<"x">>, Red, <<>>, None)>>, Red),
                        Var(<<"n">>, Blue, <<>>, Blue)>>, None),
                 Var(<<"b">>, None, <<>>, None)>>),
      TreeRoot(<<Told(<<"a">>, Red, <<Var(<<"m">>, Red, <<>>, Red)>>, None),
                 Var(<<"a">>, Blue, <<>>, None)>>),
      TreeRoot(<<Var(<<"a">>, Red, <<Var(<<"m">>, Red, <<>>, Red)>>, None),
                 Var(<<"a", "/", "m">>, Blue, <<>>, None)>>),
      TreeRoot(<<Var(<<"m">>, Red, <<Var(<<"m">>, Blue, <<>>, None)>>, None),
                 Var(<<>>, Red, <<Var(<<"n">>, Blue, <<>>, None)>>, None)>>),
      TreeRoot(<<>>) }

UpdateKeys ==
    { <<"a">>, <<"b">>, <<"z">>, <<>>,
      <<"a", "/", "m">>, <<"a", "/", "n">>, <<"a", "/", "z">>,
      <<"z", "/", "m">>, <<"b", "/", "m">>,
      <<"a", "/", "m", "/", "x">>, <<"a", "/", "m", "/", "z">>,
      <<"a", "/", "/", "m">>, <<"a", "/">>, <<"/", "a">>,
      <<"m", "/", "m">>, <<"/", "n">> }

UpdateValues == {Blue, PyInt(1)}

\* Flat maps of up to n keys, in every order of insertion.
RECURSIVE FlatMaps(_)
FlatMaps(n) ==
    IF n = 0 THEN {<<>>}
    ELSE LET shorter == FlatMaps(n - 1)
         IN  shorter \cup
             { Append(d, <<k, v>>) :
                 d \in {e \in shorter : Len(e) = n - 1},
                 k \in UpdateKeys, v \in UpdateValues }

\* self.update(d)
Update ==
    /\ tree_call = NoCall
    /\ \E d \in {e \in FlatMaps(MaxKeys) :
                    \A i, j \in DOMAIN e : e[i][1] = e[j][1] => i = j} :
          /\ self' = update(self, d)
          /\ tree_call' = [op |-> "update", d |-> d, result |-> None]
    /\ UNCHANGED <<resolver_vars, replay_vars, nested_call, delete_vars>>

\* self.to_cookiecutter_dict()
ToCookiecutterDict ==
    /\ tree_call.op # "to_cookiecutter_dict"
    /\ tree_call' = [op |-> "to_cookiecutter_dict", d |-> <<>>,
                     result |-> to_cookiecutter_dict(self, <<>>)]
    /\ UNCHANGED <<self, resolver_vars, replay_vars, nested_call, delete_vars>>

\* self.update(self.to_cookiecutter_dict())
UpdateFromOwnDict ==
    /\ tree_call.op # "update_own"
    /\ LET d == to_cookiecutter_dict(self, <<>>)
       IN  /\ self' = update(self, d)
           /\ tree_call' = [op |-> "update_own", d |-> d, result |-> None]
    /\ UNCHANGED <<resolver_vars, replay_vars, nested_call, delete_vars>>

InitTree ==
    /\ context = Var(<<>>, None, <<>>, None)
    /\ ResolverIdle
    /\ replay_dirs = {} /\ replay_files = {} /\ replay_dumped = {}
    /\ replay_call = NoCall /\ replay_ops = 0
    /\ nested_call = NoCall
    /\ DeleteIdle
    /\ self \in UpdateTrees
    /\ tree_call = NoCall

NextTree ==
    \/ Update
    \/ ToCookiecutterDict
    \/ UpdateFromOwnDict

SpecTree == InitTree /\ [][NextTree]_vars

(***************************************************************************)
(* Reading the tree and the run                                            *)
(***************************************************************************)
\* The index paths of the variables below node, the top-level ones first.
RECURSIVE PathsBelow(_, _)
PathsBelow(node, path) ==
    UNION {{Append(path, j)} \cup PathsBelow(node.variables[j], Append(path, j)) :
             j \in DOMAIN node.variables}
Paths == PathsBelow(context, <<>>)

\* The flat key of the variable at path: its names from the top joined by "/".
RECURSIVE KeyOf(_)
KeyOf(path) ==
    IF Len(path) = 1 THEN NodeAt(context, path).name
    ELSE KeyOf(SubSeq(path, 1, Len(path) - 1)) \o <<"/">> \o NodeAt(context, path).name
Parent(path) == SubSeq(path, 1, Len(path) - 1)

Stored(key) == key \in Keys(cookiecutter_dict)
Value(key) == Get(cookiecutter_dict, key)
\* key is prefix itself or lies below it.
Under(key, prefix) == key = prefix \/ startswith(key, prefix \o <<"/">>)
Returned == pc = "returned"
Interactive == ~no_input

\* The positions of writes at which key was assigned.
WritesOf(key) == {j \in DOMAIN writes : writes[j] = key}

\* The branch at path is one its parent's call goes into: the parent's value
\* is stored and equals the branch's matches.
Activated(path) ==
    /\ Len(path) >= 2
    /\ Stored(KeyOf(Parent(path)))
    /\ PyEq(NodeAt(context, path).matches, Value(KeyOf(Parent(path))))

\* The branch at path is one its parent's call passes over.
PassedOver(path) ==
    /\ Len(path) >= 2
    /\ Stored(KeyOf(Parent(path)))
    /\ ~PyEq(NodeAt(context, path).matches, Value(KeyOf(Parent(path))))

(***************************************************************************)
(* Claims                                                                  *)
(***************************************************************************)

\* C1: in the returned context a branch whose matches differs from the value
\* stored for its parent contributes no key, a branch whose matches equals it
\* contributes the keys of its resolved subtree, starting with its own key
\* <parent_key>/<child_name>, and every key of the context is the key of a
\* top-level variable or of such a matching branch.
C1_BranchContribution ==
    Returned =>
        /\ \A p \in Paths :
             /\ PassedOver(p) => \A k \in Keys(cookiecutter_dict) : ~Under(k, KeyOf(p))
             /\ Activated(p) => Stored(KeyOf(p))
        /\ \A k \in Keys(cookiecutter_dict) :
             \E p \in Paths : k = KeyOf(p) /\ (Len(p) = 1 \/ Activated(p))

\* What holds of the branches in place of C1: the same, for the branches
\* whose value is not a dict.
BranchContributionExceptDict ==
    Returned =>
        /\ \A p \in Paths :
             /\ PassedOver(p) => \A k \in Keys(cookiecutter_dict) : ~Under(k, KeyOf(p))
             /\ (Activated(p) /\ NodeAt(context, p).value.t # "dict") => Stored(KeyOf(p))
        /\ \A k \in Keys(cookiecutter_dict) :
             \E p \in Paths : k = KeyOf(p) /\ (Len(p) = 1 \/ Activated(p))

\* C2: in the returned context every dict-valued variable of a level that was
\* reached (the top level, or a branch that matched) is present, and each of
\* its assignments comes after every assignment of a non-dict variable of the
\* same level.
C2_DictAfterNonDict ==
    Returned =>
        \A p \in Paths :
            (/\ NodeAt(context, p).value.t = "dict"
             /\ ~IsPrivate(NodeAt(context, p))
             /\ (Len(p) = 1 \/ Activated(p)))
            => /\ Stored(KeyOf(p))
               /\ \A q \in Paths :
                    (Parent(q) = Parent(p) /\ NodeAt(context, q).value.t # "dict")
                    => \A i \in WritesOf(KeyOf(p)), j \in WritesOf(KeyOf(q)) : j < i

\* C3: when the second, interactive call ends and every prompt of it was
\* answered with a bare Enter, it ends as the no_input call on the same tree
\* did, and a returned context has the same keys, order and values.
C3_ModesAgree ==
    (run = 2 /\ Interactive /\ ~typed /\ pc \in {"returned", "raised"})
    => (first.pc = pc /\ Outcome.value = first.value)

C3_Witness ==
    /\ run = 2 /\ Interactive /\ ~typed /\ Returned
    /\ \E a \in asked : a.kind = "choice"
    /\ \E a \in asked : a.kind = "text"
    /\ \E p \in Paths : Activated(p) /\ Stored(KeyOf(p))

\* C4: the value stored for a variable with a private name, at the top level
\* or in a branch, is its raw value; it was not rendered and the operator was
\* not asked for it.
C4_PrivateVerbatim ==
    pc # "idle" =>
        \A p \in Paths :
            (IsPrivate(NodeAt(context, p)) /\ Stored(KeyOf(p)))
            => /\ Value(KeyOf(p)) = NodeAt(context, p).value
               /\ KeyOf(p) \notin rendered
               /\ \A a \in asked : a.key # KeyOf(p)

\* C5: a call that ends because a template names an undefined variable ends
\* with UndefinedVariableInTemplate, whose message names the variable that was
\* being rendered and which carries the context.
C5_RenderFailureReported ==
    (pc = "raised" /\ exc.type \in {"UndefinedError", "UndefinedVariableInTemplate"})
    => /\ exc.type = "UndefinedVariableInTemplate"
       /\ exc.name = exc.offender
       /\ exc.context

\* C6: within a call no step assigns a key that cookiecutter_dict already
\* holds, changes the value of a key or removes a key.
C6_AppendOnly ==
    [][pc # "idle" =>
        /\ \A k \in Keys(cookiecutter_dict) :
             /\ k \in Keys(cookiecutter_dict')
             /\ Get(cookiecutter_dict', k) = Get(cookiecutter_dict, k)
        /\ Len(writes') > Len(writes) => writes'[Len(writes')] \notin Keys(cookiecutter_dict)]_vars

\* C7: a second no_input call on the same tree ends as the first did: with the
\* same context, or with the same exception.
C7_Deterministic ==
    (run = 2 /\ no_input /\ pc \in {"returned", "raised"}) => Outcome = first

C7_Witness ==
    /\ run = 2 /\ no_input /\ Returned
    /\ Len(cookiecutter_dict) >= 3
    /\ \E p \in Paths : Activated(p) /\ Stored(KeyOf(p))

\* C8: the operator is never asked for a variable with a derived name, at the
\* top level or in a branch, and its stored value came from render_variable.
C8_DerivedNeverPrompted ==
    pc # "idle" =>
        \A p \in Paths :
            IsDerived(NodeAt(context, p))
            => /\ \A a \in asked : a.key # KeyOf(p)
               /\ Stored(KeyOf(p)) => KeyOf(p) \in rendered

\* The variable object holds every entry of the mapping d, entry by entry and
\* variable by variable.
RECURSIVE Covers(_, _)
Covers(obj, d) ==
    /\ d.t = "dict"
    /\ \A j \in DOMAIN d.items :
         LET k == d.items[j][1].s
             v == d.items[j][2]
         IN  CASE k = <<"name">> -> v = Str(obj.name)
               [] k = <<"value">> -> PyEq(obj.value, v)
               [] k = <<"prompt">> -> v = Str(obj.prompt)
               [] k = <<"matches">> -> PyEq(obj.matches, v)
               [] k = <<"metadata">> -> PyEq(obj.metadata, v)
               [] k = <<"variables">> ->
                    /\ v.t = "list"
                    /\ Len(v.items) = Len(obj.variables)
                    /\ \A i \in DOMAIN v.items : Covers(obj.variables[i], v.items[i])
               [] OTHER -> FALSE

LoadedFile == get_file_name(replay_call.dir, replay_call.name)

\* C9: a load of a file that dump was last called on with a context holding
\* the reserved key returns, and what it returns under the reserved key holds
\* every entry the dumped context has under that key.
C9_RoundTrip ==
    (replay_call.op = "load" /\ \E f \in replay_dumped : f[1] = LoadedFile)
    => /\ replay_call.exc = "none"
       /\ Covers(Item(replay_call.result, COOKIECUTTER), Item(Dumped(LoadedFile), COOKIECUTTER))

\* What holds in place of C9: the same, for a dumped context whose reserved
\* key holds the mapping form of a variable tree.
RoundTripOfTrees ==
    (/\ replay_call.op = "load"
     /\ \E f \in replay_dumped : f[1] = LoadedFile
     /\ Item(Dumped(LoadedFile), COOKIECUTTER).t = "dict"
     /\ HasItem(Item(Dumped(LoadedFile), COOKIECUTTER), Str(<<"variables">>)))
    => /\ replay_call.exc = "none"
       /\ Covers(Item(replay_call.result, COOKIECUTTER), Item(Dumped(LoadedFile), COOKIECUTTER))

\* The template path is one the specification rejects: missing, null, empty,
\* absolute, or leaving the base directory at some segment.
RECURSIVE Leaves(_, _)
Leaves(depth, parts) ==
    IF parts = <<>> THEN FALSE
    ELSE IF parts[1] = <<"..">> THEN depth = 0 \/ Leaves(depth - 1, Tail(parts))
    ELSE Leaves(depth + 1, Tail(parts))
Illegal(option) ==
    \/ ~HasItem(option, Str(<<"path">>))
    \/ Item(option, Str(<<"path">>)) \in {None, Str(<<>>)}
    \/ startswith(Item(option, Str(<<"path">>)).s, <<"/">>)
    \/ Leaves(0, Path(Item(option, Str(<<"path">>)).s).parts)

\* C10: a call of choose_nested_template that selects an option ends with an
\* error when the option's path is illegal (missing, null, empty, absolute, or
\* leaving the base directory), and otherwise returns the resolved repo_dir
\* joined with the path.
C10_NestedTemplatePath ==
    (nested_call.op = "choose" /\ nested_call.selected # None)
    => IF Illegal(nested_call.selected)
       THEN nested_call.exc # "none"
       ELSE /\ nested_call.exc = "none"
            /\ nested_call.result =
                 PathStr([root |-> TRUE,
                          parts |-> <<<<"repo">>>> \o
                                    Collapse(<<>>, Path(Item(nested_call.selected, Str(<<"path">>)).s).parts)])

\* The entries of files that are not path and do not lie below it.
Outside(files, path) ==
    {f \in files : Len(f[1]) < Len(path) \/ SubSeq(f[1], 1, Len(path)) # path}

\* C11: a call of prompt_and_delete for an existing path ends in one of three
\* ways: it returns True and the path with everything below it is gone while
\* every other entry is as before; it returns False and the file system is as
\* before; or it exits and the file system is as before.  Until it ends the
\* file system is as before.  With no_input it returns True without a prompt.
C11_DeleteOutcomes ==
    delete_call # NoCall =>
        /\ delete_call.pc \in {"ok_to_delete", "ok_to_reuse", "returned", "exited"}
        /\ delete_call.pc = "returned" => delete_call.result \in {Bool(TRUE), Bool(FALSE)}
        /\ IF delete_call.pc = "returned" /\ delete_call.result = Bool(TRUE)
           THEN fs = Outside(delete_call.before, delete_call.path)
           ELSE fs = delete_call.before
        /\ delete_call.no_input =>
             (delete_call.pc = "returned" /\ delete_call.result = Bool(TRUE)
              /\ delete_call.answers = <<>>)

C11_Witness ==
    /\ delete_call # NoCall
    /\ delete_call.pc = "returned" /\ delete_call.result = Bool(TRUE)
    /\ delete_call.path = <<"repo">> /\ delete_call.answers = <<<<"m", "a", "y", "b", "e">>, <<>>>>
    /\ fs = {<<<<"repo.zip">>, "file">>, <<<<"keep">>, "file">>}

\* <dir>/<template_name>.yaml, or .json for a name that ends with ".yaml".
NamedFile(dir, template_name) ==
    dir \o <<"/">> \o template_name
    \o (IF Len(template_name) >= 5
           /\ SubSeq(template_name, Len(template_name) - 4, Len(template_name))
              = <<".", "y", "a", "m", "l">>
        THEN <<".", "j", "s", "o", "n">>
        ELSE <<".", "y", "a", "m", "l">>)

\* C12: the file a dump writes and the file a load reads is
\* <dir>/<template_name>.yaml, or <dir>/<template_name>.json when the template
\* name ends with ".yaml"; a load that follows a dump of the same directory and
\* template name opens the file the dump wrote, and finds it.
C12_FileName ==
    [][(replay_call'.op \in {"dump", "load"} /\ "file" \in DOMAIN replay_call')
       => /\ replay_call'.file = NamedFile(replay_call'.dir, replay_call'.name)
          /\ (/\ replay_call.op = "dump" /\ "file" \in DOMAIN replay_call
              /\ replay_call'.op = "load"
              /\ replay_call'.dir = replay_call.dir /\ replay_call'.name = replay_call.name)
             => /\ replay_call'.file = replay_call.file
                /\ replay_call'.exc # "FileNotFoundError"]_vars

C12_Witness ==
    /\ replay_call.op = "load" /\ replay_call.exc = "none"
    /\ replay_call.name = <<"t", ".", "y", "a", "m", "l">>
    /\ replay_call.file = <<"r", "/", "t", ".", "y", "a", "m", "l", ".", "j", "s", "o", "n">>

\* The answers of ConfirmAnswers that say yes, and those that say no, once
\* trimmed and lower-cased.
SaidYes ==
    {<<"1">>, <<"t", "r", "u", "e">>, <<"t">>, <<"y", "e", "s">>, <<"y">>, <<"o", "n">>,
     <<"Y">>, <<" ", "y", "e", "s", " ">>}
SaidNo ==
    {<<"0">>, <<"f", "a", "l", "s", "e">>, <<"f">>, <<"n", "o">>, <<"n">>, <<"o", "f", "f">>,
     <<"N", "o">>, <<"O", "F", "F">>}

\* C13: an answer to a yes/no prompt that is one of 1, true, t, yes, y, on after
\* trimming and lower-casing counts as true (the path is deleted, or reused),
\* one of 0, false, f, no, n, off counts as false (the next question, or exit),
\* and any other non-empty answer yields no value: the same question is asked
\* again.
C13_YesNoParsing ==
    [][(delete_call # NoCall /\ delete_call'.answers # delete_call.answers)
       => LET answer == delete_call'.answers[Len(delete_call'.answers)]
          IN  /\ answer \in SaidYes =>
                   /\ delete_call'.pc = "returned"
                   /\ delete_call'.result = Bool(delete_call.pc = "ok_to_delete")
              /\ answer \in SaidNo =>
                   delete_call'.pc =
                       (IF delete_call.pc = "ok_to_delete" THEN "ok_to_reuse" ELSE "exited")
              /\ answer \notin SaidYes \cup SaidNo \cup {<<>>} =>
                   /\ delete_call'.pc = delete_call.pc
                   /\ delete_call'.result = None
                   /\ fs' = fs]_vars

C13_Witness ==
    /\ delete_call # NoCall
    /\ delete_call.answers = <<<<"O", "F", "F">>, <<"m", "a", "y", "b", "e">>>>
    /\ delete_call.pc = "ok_to_reuse"

\* The answer of the prompt e is a bare Enter.
EmptyAnswer(e) == e.answer \in {[text |-> <<>>], [json |-> NoAnswer]}

\* The answer of the prompt e, shown in the current state, is one its reader
\* accepts.
Conforming(e) ==
    CASE e.kind = "text" -> e.answer.text # <<>>
      [] e.kind = "choice" ->
            \E n \in DOMAIN render_variable(TopVar.value, cookiecutter_dict).items :
                e.answer.text = IntStr(n)
      [] e.kind = "yes_no" ->
            e.answer.text # <<>> /\ process_response(e.answer.text) # InvalidResponse
      [] e.kind = "dict" -> e.answer.json.t = "odict"

\* The step ends the prompt e: its variable is assigned.
Ends(e) == Len(writes') = Len(writes) + 1 /\ writes'[Len(writes')] = e.key

\* The step leaves the prompt e to be asked again.
AsksAgain == UNCHANGED <<cookiecutter_dict, writes, pc, stack, idx, exc>>

OptionNames(path) ==
    LET options == render_variable(NodeAt(context, path).value, cookiecutter_dict).items
    IN  [n \in DOMAIN options |-> Item(options[n], Str(<<"name">>))]

\* The option taken at the choice prompt for key: the number typed, 1 at a
\* bare Enter.
Selected(key, names) ==
    {n \in DOMAIN names :
        \E e \in asked : /\ e.key = key /\ e.kind = "choice"
                         /\ e.answer.text \in {IntStr(n)} \cup (IF n = 1 THEN {<<>>} ELSE {})}

\* C15: the value stored for a regular variable whose value is a non-empty
\* list is the name of one of its rendered options: of the first with
\* no_input, of the one the operator selected otherwise (the first at a bare
\* Enter); in the returned context its branches that do not match that name
\* contribute nothing and its non-dict branches that match it are present.
C15_ChoiceStoresName ==
    pc # "idle" =>
        \A p \in Paths :
            LET v == NodeAt(context, p)
                key == KeyOf(p)
            IN  (/\ v.value.t = "list" /\ v.value.items # <<>>
                 /\ ~startswith(v.name, <<"_">>)
                 /\ Stored(key) /\ (Len(p) = 1 \/ Activated(p)))
                => /\ \E n \in DOMAIN OptionNames(p) : Value(key) = OptionNames(p)[n]
                   /\ no_input => Value(key) = OptionNames(p)[1]
                   /\ Interactive =>
                        /\ Cardinality(Selected(key, OptionNames(p))) = 1
                        /\ \A n \in Selected(key, OptionNames(p)) : Value(key) = OptionNames(p)[n]
                   /\ Returned =>
                        \A j \in DOMAIN v.variables :
                            LET m == v.variables[j]
                            IN  IF PyEq(m.matches, Value(key))
                                THEN m.value.t # "dict" => Stored(KeyOf(Append(p, j)))
                                ELSE \A k \in Keys(cookiecutter_dict) :
                                        ~Under(k, KeyOf(Append(p, j)))

C15_Witness ==
    /\ Returned /\ Interactive
    /\ context.variables[1].value = Choice
    /\ Stored(<<"a">>) /\ Value(<<"a">>) = Blue
    /\ \E e \in asked : e.key = <<"a">> /\ e.answer = [text |-> <<"2">>]
    /\ Len(context.variables[1].variables) > 0
    /\ Len(cookiecutter_dict) = 1

\* C16: when the call for a tree in which a dict-valued top-level variable
\* (not private) has branches ends, it has returned, the variable's key holds a
\* mapping and no key of the context lies below it.
C16_DictWithBranches ==
    pc \in {"returned", "raised"} =>
        \A p \in Paths :
            LET v == NodeAt(context, p)
            IN  (Len(p) = 1 /\ v.value.t = "dict" /\ v.variables # <<>> /\ ~IsPrivate(v))
                => /\ Returned
                   /\ Stored(KeyOf(p))
                   /\ Value(KeyOf(p)).t \in {"dict", "odict"}
                   /\ \A k \in Keys(cookiecutter_dict) : Under(k, KeyOf(p)) => k = KeyOf(p)

\* The tree with every value blanked: nodes, names, order, prompt, matches and
\* metadata.
RECURSIVE Shape(_)
Shape(node) ==
    [node EXCEPT !.value = None,
                 !.variables = [j \in DOMAIN node.variables |-> Shape(node.variables[j])]]

\* The key's segments name, one after another, the children followed by path
\* (the first child of a name among siblings).
Addresses(tree, key, path) ==
    LET segments == Split(key)
    IN  /\ Len(segments) = Len(path)
        /\ \A i \in DOMAIN path :
              LET siblings == NodeAt(tree, SubSeq(path, 1, i - 1)).variables
              IN  /\ siblings[path[i]].name = segments[i]
                  /\ \A j \in 1..(path[i] - 1) : siblings[j].name # segments[i]

UpdateStep == tree_call' # tree_call /\ tree_call'.op \in {"update", "update_own"}

\* C17: update(flat_map) leaves the nodes, their names, order, prompt, matches
\* and metadata as they were; a variable addressed by a key of the map takes
\* that key's value, and every other variable keeps its value (keys with a
\* segment that names no child are ignored).
C17_UpdateOnlyValues ==
    [][UpdateStep =>
          LET d == tree_call'.d
          IN  /\ Shape(self') = Shape(self)
              /\ \A p \in PathsBelow(self, <<>>) :
                    NodeAt(self', p).value =
                        IF \E i \in DOMAIN d : Addresses(self, d[i][1], p)
                        THEN d[CHOOSE i \in DOMAIN d : Addresses(self, d[i][1], p)][2]
                        ELSE NodeAt(self, p).value]_vars

\* An update with a nested key that hits, a key whose first segment names no
\* child and a key whose later segment names no child has been applied.
C17_Witness ==
    /\ tree_call.op = "update"
    /\ Len(tree_call.d) = 2
    /\ tree_call.d[1] = <<<<"a", "/", "m", "/", "x">>, Blue>>
    /\ tree_call.d[2][1] \in {<<"z", "/", "m">>, <<"a", "/", "z">>}
    /\ Len(self.variables) = 2
    /\ Len(self.variables[1].variables) = 2
    /\ self.variables[1].variables[1].variables[1].value = Blue
    /\ self.variables[1].variables[1].value = Red

ReplayStep == replay_ops' = replay_ops + 1

\* C18: a dump whose context lacks 'cookiecutter' fails and leaves the replay
\* store as it was (no file created or overwritten, no directory created); a
\* load of a stored document lacking 'cookiecutter' fails and returns nothing.
C18_RejectedRecordLeavesStore ==
    [][ReplayStep =>
          /\ (/\ replay_call'.op = "dump"
              /\ ~HasItem(replay_call'.context, COOKIECUTTER))
                => /\ replay_call'.exc = "ValueError"
                   /\ replay_files' = replay_files
                   /\ replay_dirs' = replay_dirs
          /\ (/\ replay_call'.op = "load"
              /\ replay_call'.file \in Files
              /\ safe_load(Content(replay_call'.file)).t = "dict"
              /\ ~HasItem(safe_load(Content(replay_call'.file)), COOKIECUTTER))
                => /\ replay_call'.exc = "ValueError"
                   /\ "result" \notin DOMAIN replay_call']_vars

\* The number of top-level variables whose name does not start with "_".
Visible == Cardinality({j \in DOMAIN TopVars : ~startswith(TopVars[j].name, <<"_">>)})

\* C19: the prefix [count/size] of every prompt shown has size equal to the
\* number of top-level variables not starting with "_" and 1 <= count <= size.
C19_PrefixInRange ==
    \A e \in asked :
        e.prefix # NoPrefix =>
            /\ e.prefix[2] = Visible
            /\ 1 <= e.prefix[1]
            /\ e.prefix[1] <= e.prefix[2]

\* Sibling names are unique and hold no "/", at every level.
RECURSIVE WellNamed(_)
WellNamed(node) ==
    /\ \A i, j \in DOMAIN node.variables :
          node.variables[i].name = node.variables[j].name => i = j
    /\ \A j \in DOMAIN node.variables :
          /\ \A c \in DOMAIN node.variables[j].name : node.variables[j].name[c] # "/"
          /\ WellNamed(node.variables[j])

\* The names from the root down to the variable at path, joined by "/".
PathKey(tree, path) ==
    Join([i \in DOMAIN path |-> NodeAt(tree, SubSeq(path, 1, i)).name], <<"/">>)

\* C20: for a tree whose sibling names are unique and hold no "/",
\* to_cookiecutter_dict has exactly one key per descendant, the "/"-joined
\* names on its path (a bare name at the top), holding its value, and
\* t.update(t.to_cookiecutter_dict()) leaves every value as it was.
C20_FlattenRoundTrip ==
    [][(tree_call' # tree_call /\ WellNamed(self)) =>
          /\ tree_call'.op = "to_cookiecutter_dict" =>
                LET d == tree_call'.result
                    paths == PathsBelow(self, <<>>)
                IN  /\ Len(d) = Cardinality(paths)
                    /\ Keys(d) = {PathKey(self, p) : p \in paths}
                    /\ \A p \in paths : Get(d, PathKey(self, p)) = NodeAt(self, p).value
          /\ tree_call'.op = "update_own" => self' = self]_vars

\* The round trip has run on a tree with two levels of branches, after an
\* earlier update had replaced the value of a/m/x.
C20_Witness ==
    /\ tree_call.op = "update_own"
    /\ WellNamed(self)
    /\ Len(tree_call.d) = 5
    /\ \E j \in DOMAIN tree_call.d : tree_call.d[j] = <<<<"a", "/", "m", "/", "x">>, Blue>>
====
